---- MODULE Spec2Model ----
(***************************************************************************)
(* Taskflow vector-service: the Redis cache adapter (cache_manager.py) and *)
(* the embedding / similarity-search pipeline over PostgreSQL              *)
(* (vector_search.py), as two state machines:                              *)
(*   SpecCache  VectorCacheManager instances against one Redis store       *)
(*   SpecDb     one VectorSearchService on its psycopg2 connection         *)
(* Strings that the code hashes or stores are sequences of tokens, so that *)
(* json.dumps / pickle.dumps and their inverses are computed, not assumed. *)
(***************************************************************************)
EXTENDS Integers, Sequences, FiniteSets, TLC

VARIABLES
    storeMode,   \* Redis: "up", "down" (connection refused), "erroring" (replies errors)
    store,       \* Redis keyspace: key -> [val, ttl, req]; req is history (who wrote it)
    client,      \* self.redis_client of each adapter
    cpc,         \* position of each adapter inside invalidate_search_cache
    invKeys,     \* local `keys` of a running invalidate_search_cache
    cret,        \* the last completed cache operation and what its caller saw
    shadowE,     \* history: embeddings a caller successfully cached, by text
    shadowS,     \* history: result lists successfully cached, by (query, filter mapping)
    raced,       \* history: what other writers did to the keyspace since this adapter's scan
    nops,        \* number of steps taken so far
    tasks,       \* the committed rows of the tasks table, by id
    conn,        \* self.connection: "idle", "intrans", "aborted" or "closed"
    pending,     \* embeddings written in the open transaction, not yet committed
    dpc,         \* position inside update_all_embeddings: "idle", "loop", "commit"
    cur,         \* locals and history of the running update_all_embeddings
    dret,        \* the last completed pipeline operation and what its caller saw
    prev,        \* the operation completed before that one
    dops,        \* number of pipeline operations started so far
    peer         \* a second service instance, on a connection of its own

cvars == <<storeMode, store, client, cpc, invKeys, cret, shadowE, shadowS, raced, nops>>

dvars == <<tasks, conn, pending, dpc, cur, dret, prev, dops, peer>>

vars == <<cvars, dvars>>

----------------------------------------------------------------------------
(* Bounds of the cache model *)

MaxOps == 4

Adapters == {1, 2}
\* the module-level `cache_manager`, constructed at import; the others are built later
GlobalInstance == 1
Texts == {"buy milk"}
Vectors == {<<>>, <<1, 2>>}
Queries == {"shopping", "work"}
FilterKeyOrder == <<"priority", "status">>
FilterKeys == {FilterKeyOrder[i] : i \in 1..Len(FilterKeyOrder)}
\* A Python dict keeps insertion order: a sequence of <<key, value>> pairs.
FilterDicts ==
    { <<>>,
      << <<"priority", 1>>, <<"status", 2>> >>,
      << <<"status", 2>>, <<"priority", 1>> >> }
NoFilters == [isNone |-> TRUE, items |-> <<>>]
FilterArgs == {NoFilters} \cup {[isNone |-> FALSE, items |-> d] : d \in FilterDicts}
ResultLists ==
    { <<>>,
      << [id |-> 2, similarity |-> 9], [id |-> 1, similarity |-> 8] >> }
TTLArgs == {2}

DefaultEmbeddingTTL == 3600
DefaultSearchTTL == 600

----------------------------------------------------------------------------
(* Return values: a tagged value, val always a sequence *)

NoneRet == [kind |-> "None", val |-> <<>>]
HitRet(v) == [kind |-> "value", val |-> v]
StatsRet(status, counts) == [kind |-> "stats", val |-> <<status>> \o counts]
Raises(e) == [kind |-> "raise", val |-> <<e>>]

----------------------------------------------------------------------------
(* Serialisation *)

Digits == 0..9

RECURSIVE NumTokens(_)
NumTokens(v) ==
    IF v = <<>> THEN <<>> ELSE <<ToString(Head(v))>> \o NumTokens(Tail(v))

IsNumToken(t) == \E n \in Digits : ToString(n) = t
NumOf(t) == CHOOSE n \in Digits : ToString(n) = t

RECURSIVE TokenNums(_)
TokenNums(b) ==
    IF b = <<>> THEN <<>> ELSE <<NumOf(Head(b))>> \o TokenNums(Tail(b))

\* pickle.dumps(embedding): protocol header, the items, STOP opcode
PickleDumps(v) == <<"PROTO">> \o NumTokens(v) \o <<"STOP">>

\* pickle.loads(cached): raises on anything that is not a well-formed pickle
PickleLoads(b) ==
    IF /\ Len(b) >= 2
       /\ b[1] = "PROTO"
       /\ b[Len(b)] = "STOP"
       /\ \A i \in 2..(Len(b) - 1) : IsNumToken(b[i])
    THEN [ok |-> TRUE, val |-> TokenNums(SubSeq(b, 2, Len(b) - 1))]
    ELSE [ok |-> FALSE, val |-> <<>>]

JsonRecord(r) ==
    <<"{", "\"id\"", ":", ToString(r.id), ",",
      "\"similarity\"", ":", ToString(r.similarity), "}">>

RECURSIVE JsonRecords(_)
JsonRecords(rs) ==
    IF rs = <<>> THEN <<>>
    ELSE IF Len(rs) = 1 THEN JsonRecord(rs[1])
    ELSE JsonRecord(rs[1]) \o <<",">> \o JsonRecords(Tail(rs))

\* json.dumps(results).encode(): the list in its given order
JsonDumpsResults(rs) == <<"[">> \o JsonRecords(rs) \o <<"]">>

IsJsonRecord(b) ==
    /\ Len(b) = 9
    /\ b[1] = "{" /\ b[2] = "\"id\"" /\ b[3] = ":" /\ IsNumToken(b[4])
    /\ b[5] = "," /\ b[6] = "\"similarity\"" /\ b[7] = ":" /\ IsNumToken(b[8])
    /\ b[9] = "}"

RECURSIVE ParseRecords(_)
ParseRecords(b) ==
    IF Len(b) < 9 \/ ~IsJsonRecord(SubSeq(b, 1, 9))
    THEN [ok |-> FALSE, val |-> <<>>]
    ELSE LET r == [id |-> NumOf(b[4]), similarity |-> NumOf(b[8])]
         IN  IF Len(b) = 9 THEN [ok |-> TRUE, val |-> <<r>>]
             ELSE IF b[10] # "," THEN [ok |-> FALSE, val |-> <<>>]
             ELSE LET rest == ParseRecords(SubSeq(b, 11, Len(b)))
                  IN  [ok |-> rest.ok, val |-> IF rest.ok THEN <<r>> \o rest.val ELSE <<>>]

\* json.loads(cached.decode()): raises on malformed input
JsonLoadsResults(b) ==
    IF Len(b) < 2 \/ b[1] # "[" \/ b[Len(b)] # "]"
    THEN [ok |-> FALSE, val |-> <<>>]
    ELSE IF Len(b) = 2 THEN [ok |-> TRUE, val |-> <<>>]
    ELSE ParseRecords(SubSeq(b, 2, Len(b) - 1))

----------------------------------------------------------------------------
(* Key derivation *)

KeyRank(k) == CHOOSE i \in 1..Len(FilterKeyOrder) : FilterKeyOrder[i] = k

RECURSIVE InsertSorted(_, _)
InsertSorted(p, s) ==
    IF s = <<>> THEN <<p>>
    ELSE IF KeyRank(p[1]) <= KeyRank(Head(s)[1]) THEN <<p>> \o s
    ELSE <<Head(s)>> \o InsertSorted(p, Tail(s))

\* mutant: json.dumps without sort_keys=True
SortKeys_InsertionOrder(items) == items

RECURSIVE SortKeys(_)
SortKeys(items) ==
    IF items = <<>> THEN <<>> ELSE InsertSorted(Head(items), SortKeys(Tail(items)))

\* `filters or {}`
FiltersOrEmpty(f) == IF f.isNone \/ f.items = <<>> THEN <<>> ELSE f.items

RECURSIVE JsonItems(_)
JsonItems(items) ==
    IF items = <<>> THEN <<>>
    ELSE LET p == Head(items)
             one == <<"\"" \o p[1] \o "\"", ":", ToString(p[2])>>
         IN  IF Len(items) = 1 THEN one ELSE one \o <<",">> \o JsonItems(Tail(items))

\* json.dumps({"query": query, "filters": filters or {}}, sort_keys=True)
CacheStr(query, filters) ==
    <<"{", "\"filters\"", ":", "{">> \o JsonItems(SortKeys(FiltersOrEmpty(filters)))
        \o <<"}", ",", "\"query\"", ":", "\"" \o query \o "\"", "}">>

\* text.encode() of a plain text: one token
TextBytes(text) == <<text>>

\* hashlib.md5(..).hexdigest(): collision-free on the bounded inputs, so the digest
\* is represented by the bytes it was computed from
Md5Hex(bytes) == [md5 |-> bytes]

\* f"{prefix}:{text_hash}"
GenerateCacheKey(bytes, prefix) == [prefix |-> prefix, hash |-> Md5Hex(bytes)]

EmbeddingKey(text) == GenerateCacheKey(TextBytes(text), "embedding")
SearchKey(query, filters) == GenerateCacheKey(CacheStr(query, filters), "search")

----------------------------------------------------------------------------
(* The Redis commands, as the client sees them *)

\* the exception a command raises in the current mode ("" when it succeeds)
CommandError(mode) ==
    IF mode = "down" THEN "ConnectionError"
    ELSE IF mode = "erroring" THEN "ResponseError"
    ELSE ""

\* mutant: the pattern matches every key
RedisKeys_AllKeys(st, prefix) == DOMAIN st

\* KEYS pattern with pattern "<prefix>:*"
RedisKeys(st, prefix) == {k \in DOMAIN st : k.prefix = prefix}

\* GET
RedisGet(st, key) == IF key \in DOMAIN st THEN st[key].val ELSE <<>>

\* a SET that keeps the expiry of an existing key
RedisSetex_KeepTTL(st, key, ttl, val, req) ==
    [k \in DOMAIN st \cup {key} |->
        IF k = key
        THEN [val |-> val, ttl |-> IF key \in DOMAIN st THEN st[key].ttl ELSE ttl,
              req |-> req]
        ELSE st[k]]

\* SETEX key ttl value: replaces value and expiry
RedisSetex(st, key, ttl, val, req) ==
    [k \in DOMAIN st \cup {key} |->
        IF k = key THEN [val |-> val, ttl |-> ttl, req |-> req] ELSE st[k]]

\* a delete that clears by pattern at the time of the delete
RedisDelete_ByPattern(st, keys) ==
    [k \in {x \in DOMAIN st : \A y \in keys : x.prefix # y.prefix} |-> st[k]]

\* DEL key...
RedisDelete(st, keys) == [k \in DOMAIN st \ keys |-> st[k]]

\* expiry after d seconds
Expire(st, d) ==
    [k \in {x \in DOMAIN st : st[x].ttl > d} |-> [st[k] EXCEPT !.ttl = @ - d]]

----------------------------------------------------------------------------
(* VectorCacheManager *)

EmptyMap == [k \in {} |-> 0]

\* `except redis.ConnectionError` of __init__
InitCatches(e) == e = "ConnectionError"

\* mutant: the operations catch what __init__ catches
OperationCatches_ConnectionOnly(e) == e = "ConnectionError"

\* `except Exception` of every operation
OperationCatches(e) == TRUE

\* mutant: the failed client object is kept instead of being set to None
ConstructResult_KeepsClient(mode) ==
    LET e == CommandError(mode)
    IN  IF e = "" \/ InitCatches(e) THEN "connected" ELSE "raised"

\* __init__: ping, and on a caught failure self.redis_client = None
ConstructResult(mode) ==
    LET e == CommandError(mode)
    IN  IF e = "" THEN "connected"
        ELSE IF InitCatches(e) THEN "None"
        ELSE "raised"

\* what a try-body leaves: the exception it raised (or "") and the value it returned
Returned(r) == [exc |-> "", ret |-> r]
Threw(e) == [exc |-> e, ret |-> NoneRet]

\* a handler that prints and re-raises
Absorb_Reraise(body, fallthrough) ==
    IF body.exc = "" THEN [ret |-> body.ret, log |-> ""]
    ELSE [ret |-> Raises(body.exc), log |-> body.exc]

\* try: body / except Exception: print(...) / then the statement after the try
Absorb(body, fallthrough) ==
    IF body.exc = "" THEN [ret |-> body.ret, log |-> ""]
    ELSE IF OperationCatches(body.exc) THEN [ret |-> fallthrough, log |-> body.exc]
    ELSE [ret |-> Raises(body.exc), log |-> ""]

\* `if cached:` on the bytes read
Truthy(bytes) == bytes # <<>>

\* mutant: `if embedding:` on the decoded vector instead of `if cached:`
GetEmbeddingResult_IfEmbedding(cl, mode, st, text) ==
    IF cl = "None" THEN [ret |-> NoneRet, log |-> ""]
    ELSE Absorb(
           IF CommandError(mode) # "" THEN Threw(CommandError(mode))
           ELSE LET cached == RedisGet(st, EmbeddingKey(text))
                    e == PickleLoads(cached)
                IN  IF Truthy(cached) /\ ~e.ok THEN Threw("UnpicklingError")
                    ELSE IF Truthy(cached) /\ e.val # <<>> THEN Returned(HitRet(e.val))
                    ELSE Returned(NoneRet),
           NoneRet)

\* get_embedding
GetEmbeddingResult(cl, mode, st, text) ==
    IF cl = "None" THEN [ret |-> NoneRet, log |-> ""]
    ELSE Absorb(
           IF CommandError(mode) # "" THEN Threw(CommandError(mode))
           ELSE LET cached == RedisGet(st, EmbeddingKey(text))
                IN  IF Truthy(cached)
                    THEN LET e == PickleLoads(cached)
                         IN  IF e.ok THEN Returned(HitRet(e.val))
                             ELSE Threw("UnpicklingError")
                    ELSE Returned(NoneRet),
           NoneRet)

\* mutant: `if results:` on the decoded list instead of `if cached:`
GetSearchResult_IfResults(cl, mode, st, query, filters) ==
    IF cl = "None" THEN [ret |-> NoneRet, log |-> ""]
    ELSE Absorb(
           IF CommandError(mode) # "" THEN Threw(CommandError(mode))
           ELSE LET cached == RedisGet(st, SearchKey(query, filters))
                    r == JsonLoadsResults(cached)
                IN  IF Truthy(cached) /\ ~r.ok THEN Threw("JSONDecodeError")
                    ELSE IF Truthy(cached) /\ r.val # <<>> THEN Returned(HitRet(r.val))
                    ELSE Returned(NoneRet),
           NoneRet)

\* get_search_results
GetSearchResult(cl, mode, st, query, filters) ==
    IF cl = "None" THEN [ret |-> NoneRet, log |-> ""]
    ELSE Absorb(
           IF CommandError(mode) # "" THEN Threw(CommandError(mode))
           ELSE LET cached == RedisGet(st, SearchKey(query, filters))
                IN  IF Truthy(cached)
                    THEN LET r == JsonLoadsResults(cached)
                         IN  IF r.ok THEN Returned(HitRet(r.val))
                             ELSE Threw("JSONDecodeError")
                    ELSE Returned(NoneRet),
           NoneRet)

\* the setex of set_embedding / set_search_results: Redis rejects ttl <= 0
SetexError(mode, ttl) ==
    IF CommandError(mode) # "" THEN CommandError(mode)
    ELSE IF ttl <= 0 THEN "ResponseError"
    ELSE ""

\* set_embedding / set_search_results: the store after the call and what was logged
SetResult(cl, mode, st, key, ttl, val, req) ==
    IF cl = "None" THEN [store |-> st, out |-> [ret |-> NoneRet, log |-> ""], wrote |-> FALSE]
    ELSE LET e == SetexError(mode, ttl)
         IN  IF e # ""
             THEN [store |-> st, out |-> Absorb(Threw(e), NoneRet), wrote |-> FALSE]
             ELSE [store |-> RedisSetex(st, key, ttl, val, req),
                   out |-> Absorb(Returned(NoneRet), NoneRet), wrote |-> TRUE]

\* get_cache_stats
CacheStatsResult(cl, mode, st) ==
    IF cl = "None" THEN [ret |-> StatsRet("disconnected", <<>>), log |-> ""]
    ELSE LET body ==
               IF CommandError(mode) # "" THEN Threw(CommandError(mode))
               ELSE Returned(StatsRet("connected",
                        <<Cardinality(DOMAIN st),
                          Cardinality(RedisKeys(st, "embedding")),
                          Cardinality(RedisKeys(st, "search"))>>))
         IN  IF body.exc = "" THEN [ret |-> body.ret, log |-> ""]
             ELSE IF OperationCatches(body.exc)
                  THEN [ret |-> StatsRet("error", <<body.exc>>), log |-> ""]
                  ELSE [ret |-> Raises(body.exc), log |-> ""]

\* the filter mapping a caller means: None and {} are the same empty mapping
FilterMapping(f) == {f.items[i] : i \in 1..Len(f.items)}
Request(query, filters) == [q |-> query, m |-> FilterMapping(filters)]

Done(a, op, args, out) ==
    cret' = [a |-> a, op |-> op, ret |-> out.ret, log |-> out.log]

Constructed(a) == client[a] \in {"connected", "None"}
Idle(a) == Constructed(a) /\ cpc[a] = "idle"

\* adapter a writes (or deletes) keys while an invalidation of another adapter sits
\* between its scan and its delete: remembered with whether that scan had seen the key
MarkRaced(a, keys, wrote) ==
    raced' = [b \in Adapters |->
                IF b # a /\ cpc[b] = "delete"
                THEN raced[b] \cup {[key |-> k, seen |-> k \in invKeys[b], wrote |-> wrote] :
                                       k \in keys}
                ELSE raced[b]]

\* every step of a run counts; a run has at most MaxOps steps. The adapter shares
\* no state with the embedding pipeline, which a step of the adapter leaves alone
Step == nops < MaxOps /\ nops' = nops + 1 /\ UNCHANGED dvars

\* the pipeline, not in use
DbAtRest ==
    /\ tasks = [id \in {} |-> 0]
    /\ conn = "idle"
    /\ pending = [id \in {} |-> 0]
    /\ dpc = "idle"
    /\ cur = [op |-> "none"]
    /\ dret = [op |-> "none"]
    /\ prev = [op |-> "none"]
    /\ dops = 0
    /\ peer = [dpc |-> "idle"]

InitCache ==
    /\ DbAtRest
    /\ storeMode \in {"up", "down", "erroring"}
    /\ store = EmptyMap
    /\ client = [a \in Adapters |->
                   IF a = GlobalInstance THEN ConstructResult(storeMode)
                   ELSE "unconstructed"]
    /\ cpc = [a \in Adapters |-> "idle"]
    /\ invKeys = [a \in Adapters |-> {}]
    /\ cret = [a |-> 0, op |-> "start", ret |-> NoneRet, log |-> ""]
    /\ shadowE = EmptyMap
    /\ shadowS = EmptyMap
    /\ raced = [a \in Adapters |-> {}]
    /\ nops = 0

Construct(a) ==
    /\ client[a] = "unconstructed"
    /\ Step
    /\ client' = [client EXCEPT ![a] = ConstructResult(storeMode)]
    /\ cret' = [a |-> a, op |-> "__init__",
                ret |-> IF ConstructResult(storeMode) = "raised"
                        THEN Raises(CommandError(storeMode)) ELSE NoneRet,
                log |-> ""]
    /\ UNCHANGED <<storeMode, store, cpc, invKeys, shadowE, shadowS, raced>>

get_embedding(a, text) ==
    /\ Idle(a)
    /\ Step
    /\ Done(a, "get_embedding", <<>>, GetEmbeddingResult(client[a], storeMode, store, text))
    /\ UNCHANGED <<storeMode, store, client, cpc, invKeys, shadowE, shadowS, raced>>

set_embedding(a, text, embedding, ttl) ==
    /\ Idle(a)
    /\ Step
    /\ LET r == SetResult(client[a], storeMode, store, EmbeddingKey(text), ttl,
                          PickleDumps(embedding), [q |-> text, f |-> NoFilters])
       IN  /\ store' = r.store
           /\ Done(a, "set_embedding", <<>>, r.out)
           /\ shadowE' = IF r.wrote
                         THEN [t \in DOMAIN shadowE \cup {text} |->
                                 IF t = text THEN [val |-> embedding, ttl |-> ttl]
                                 ELSE shadowE[t]]
                         ELSE shadowE
           /\ IF r.wrote THEN MarkRaced(a, {EmbeddingKey(text)}, TRUE) ELSE raced' = raced
    /\ UNCHANGED <<storeMode, client, cpc, invKeys, shadowS>>

get_search_results(a, query, filters) ==
    /\ Idle(a)
    /\ Step
    /\ Done(a, "get_search_results", <<>>,
            GetSearchResult(client[a], storeMode, store, query, filters))
    /\ UNCHANGED <<storeMode, store, client, cpc, invKeys, shadowE, shadowS, raced>>

set_search_results(a, query, results, filters, ttl) ==
    /\ Idle(a)
    /\ Step
    /\ LET r == SetResult(client[a], storeMode, store, SearchKey(query, filters), ttl,
                          JsonDumpsResults(results), [q |-> query, f |-> filters])
           rq == Request(query, filters)
       IN  /\ store' = r.store
           /\ Done(a, "set_search_results", <<>>, r.out)
           /\ shadowS' = IF r.wrote
                         THEN [x \in DOMAIN shadowS \cup {rq} |->
                                 IF x = rq THEN [val |-> results, ttl |-> ttl]
                                 ELSE shadowS[x]]
                         ELSE shadowS
           /\ IF r.wrote THEN MarkRaced(a, {SearchKey(query, filters)}, TRUE)
              ELSE raced' = raced
    /\ UNCHANGED <<storeMode, client, cpc, invKeys, shadowE>>

\* invalidate_search_cache up to and including keys("search:*") and `if keys:`
invalidate_scan(a) ==
    /\ Idle(a)
    /\ Step
    /\ IF client[a] = "None"
       THEN /\ Done(a, "invalidate_search_cache", <<>>, [ret |-> NoneRet, log |-> ""])
            /\ UNCHANGED <<cpc, invKeys, raced>>
       ELSE IF CommandError(storeMode) # ""
       THEN /\ Done(a, "invalidate_search_cache", <<>>,
                    Absorb(Threw(CommandError(storeMode)), NoneRet))
            /\ UNCHANGED <<cpc, invKeys, raced>>
       ELSE IF RedisKeys(store, "search") = {}
       THEN /\ Done(a, "invalidate_search_cache", <<>>, Absorb(Returned(NoneRet), NoneRet))
            /\ UNCHANGED <<cpc, invKeys, raced>>
       ELSE /\ cpc' = [cpc EXCEPT ![a] = "delete"]
            /\ invKeys' = [invKeys EXCEPT ![a] = RedisKeys(store, "search")]
            /\ raced' = [raced EXCEPT ![a] = {}]
            /\ cret' = [a |-> a, op |-> "keys", ret |-> NoneRet, log |-> ""]
    /\ UNCHANGED <<storeMode, store, client, shadowE, shadowS>>

\* invalidate_search_cache from delete(*keys) to its return
invalidate_delete(a) ==
    /\ cpc[a] = "delete"
    /\ Step
    /\ IF CommandError(storeMode) # ""
       THEN /\ Done(a, "invalidate_search_cache", <<>>,
                    Absorb(Threw(CommandError(storeMode)), NoneRet))
            /\ UNCHANGED <<store, shadowS, raced>>
       ELSE /\ store' = RedisDelete(store, invKeys[a])
            /\ shadowS' = EmptyMap
            /\ MarkRaced(a, invKeys[a] \cap DOMAIN store, FALSE)
            /\ Done(a, "invalidate_search_cache", <<>>,
                    [ret |-> NoneRet, log |-> "Cleared"])
    /\ cpc' = [cpc EXCEPT ![a] = "idle"]
    /\ invKeys' = [invKeys EXCEPT ![a] = {}]
    /\ UNCHANGED <<storeMode, client, shadowE>>

get_cache_stats(a) ==
    /\ Idle(a)
    /\ Step
    /\ Done(a, "get_cache_stats", <<>>, CacheStatsResult(client[a], storeMode, store))
    /\ UNCHANGED <<storeMode, store, client, cpc, invKeys, shadowE, shadowS, raced>>

Env(what) == cret' = [a |-> 0, op |-> what, ret |-> NoneRet, log |-> ""]

\* the store goes away, starts replying errors, or comes back
StoreModeChange(mode) ==
    /\ mode # storeMode
    /\ Step
    /\ storeMode' = mode
    /\ Env("store")
    /\ UNCHANGED <<store, client, cpc, invKeys, shadowE, shadowS, raced>>

\* the time steps worth taking: up to the expiry of some entry
TickSteps == {store[k].ttl : k \in DOMAIN store}

\* d seconds pass: Redis drops the entries whose expiry is reached
Tick(d) ==
    /\ d > 0
    /\ Step
    /\ store' = Expire(store, d)
    /\ shadowE' = Expire(shadowE, d)
    /\ shadowS' = Expire(shadowS, d)
    /\ Env("clock")
    /\ UNCHANGED <<storeMode, client, cpc, invKeys, raced>>

NextCache ==
    \/ \E a \in Adapters : Construct(a)
    \/ \E a \in Adapters, t \in Texts : get_embedding(a, t)
    \/ \E a \in Adapters, t \in Texts, v \in Vectors, ttl \in TTLArgs :
          set_embedding(a, t, v, ttl)
    \/ \E a \in Adapters, t \in Texts, v \in Vectors :
          set_embedding(a, t, v, DefaultEmbeddingTTL)
    \/ \E a \in Adapters, q \in Queries, f \in FilterArgs : get_search_results(a, q, f)
    \/ \E a \in Adapters, q \in Queries, r \in ResultLists, ttl \in TTLArgs :
          set_search_results(a, q, r, NoFilters, ttl)
    \/ \E a \in Adapters, q \in Queries, r \in ResultLists, f \in FilterArgs :
          set_search_results(a, q, r, f, DefaultSearchTTL)
    \/ \E a \in Adapters : invalidate_scan(a)
    \/ \E a \in Adapters : invalidate_delete(a)
    \/ \E a \in Adapters : get_cache_stats(a)
    \/ \E m \in {"up", "down", "erroring"} : StoreModeChange(m)
    \/ \E d \in TickSteps : Tick(d)

SpecCache == InitCache /\ [][NextCache]_vars

----------------------------------------------------------------------------
(* The adapter on a keyspace that other writers have filled *)

\* payloads found under a key: a truncated pickle, a truncated JSON text, a pickle
\* (not JSON), a JSON text (not a pickle), and the empty string
ForeignPayloads ==
    { <<"PROTO", "1">>,
      <<"[", "{", "\"id\"">>,
      PickleDumps(<<1, 2>>),
      JsonDumpsResults(<<>>),
      <<>> }

ForeignKeys == {EmbeddingKey("buy milk"), SearchKey("shopping", NoFilters)}

ForeignEntry(payload) ==
    [val |-> payload, ttl |-> DefaultSearchTTL,
     req |-> [q |-> "shopping", f |-> NoFilters]]

\* the module-level adapter is connected to a Redis whose two keys hold entries
\* that this adapter did not write
InitForeign ==
    /\ DbAtRest
    /\ storeMode = "up"
    /\ \E pe \in ForeignPayloads, ps \in ForeignPayloads :
          store = [k \in ForeignKeys |->
                     IF k.prefix = "embedding" THEN ForeignEntry(pe)
                     ELSE ForeignEntry(ps)]
    /\ client = [a \in Adapters |->
                   IF a = GlobalInstance THEN "connected" ELSE "unconstructed"]
    /\ cpc = [a \in Adapters |-> "idle"]
    /\ invKeys = [a \in Adapters |-> {}]
    /\ cret = [a |-> 0, op |-> "start", ret |-> NoneRet, log |-> ""]
    /\ shadowE = EmptyMap
    /\ shadowS = EmptyMap
    /\ raced = [a \in Adapters |-> {}]
    /\ nops = 0

NextForeign ==
    \/ \E a \in Adapters, t \in Texts : get_embedding(a, t)
    \/ \E a \in Adapters, q \in Queries, f \in FilterArgs : get_search_results(a, q, f)
    \/ \E a \in Adapters, t \in Texts, v \in Vectors :
          set_embedding(a, t, v, DefaultEmbeddingTTL)
    \/ \E a \in Adapters, q \in Queries, r \in ResultLists :
          set_search_results(a, q, r, NoFilters, DefaultSearchTTL)
    \/ \E m \in {"up", "down", "erroring"} : StoreModeChange(m)

SpecForeign == InitForeign /\ [][NextForeign]_vars

----------------------------------------------------------------------------
(* Two adapters on one Redis: invalidation against concurrent writers *)

\* both adapters are connected and one search entry has been cached, by
\* set_search_results("shopping", r) with the default TTL
InitRace ==
    /\ DbAtRest
    /\ storeMode = "up"
    /\ \E r \in ResultLists :
          /\ store = SetResult("connected", "up", EmptyMap,
                               SearchKey("shopping", NoFilters), DefaultSearchTTL,
                               JsonDumpsResults(r),
                               [q |-> "shopping", f |-> NoFilters]).store
          /\ shadowS = [x \in {Request("shopping", NoFilters)} |->
                          [val |-> r, ttl |-> DefaultSearchTTL]]
    /\ client = [a \in Adapters |-> "connected"]
    /\ cpc = [a \in Adapters |-> "idle"]
    /\ invKeys = [a \in Adapters |-> {}]
    /\ cret = [a |-> 0, op |-> "start", ret |-> NoneRet, log |-> ""]
    /\ shadowE = EmptyMap
    /\ raced = [a \in Adapters |-> {}]
    /\ nops = 0

NextRace ==
    \/ \E a \in Adapters, q \in Queries, r \in ResultLists,
          ttl \in TTLArgs \cup {DefaultSearchTTL} :
          set_search_results(a, q, r, NoFilters, ttl)
    \/ \E a \in Adapters, q \in Queries : get_search_results(a, q, NoFilters)
    \/ \E a \in Adapters : invalidate_scan(a)
    \/ \E a \in Adapters : invalidate_delete(a)
    \/ \E d \in TickSteps : Tick(d)

SpecRace == InitRace /\ [][NextRace]_vars

----------------------------------------------------------------------------
(* The tasks table and the embedding model *)

MaxDbOps == 4

TaskIds == 1..6
NULL == <<>>

\* the rows of the model: title, description, status
TaskRow(id) ==
    CASE id = 1 -> [title |-> "Buy groceries", description |-> "milk and bread", status |-> "todo"]
      [] id = 2 -> [title |-> "Order shoes", description |-> "", status |-> "todo"]
      [] id = 3 -> [title |-> "Pay rent", description |-> "by friday", status |-> "done"]
      [] id = 4 -> [title |-> "Write report", description |-> "quarterly", status |-> "todo"]
      [] id = 5 -> [title |-> "Call dentist", description |-> "", status |-> "done"]
      [] OTHER  -> [title |-> "", description |-> "", status |-> "todo"]

SearchTexts == {"shopping", "work", ""}
Limits == {3, 6}
\* arguments of update_task_embedding: an id with a row, an id without, two descriptions
UpdateIds == {1, 7}
Descriptions == {"", "milk and bread"}

\* `not text`
Falsy(text) == text = ""

\* self.model.encode(text).tolist(): the model is a fixed function of the text; the
\* vectors of the model have one coordinate, in tenths
Encode(text) ==
    CASE text = "shopping" -> <<0>>
      [] text = "Buy groceries. milk and bread" -> <<1>>
      [] text = "Order shoes" -> <<2>>
      [] text = "milk and bread" -> <<3>>
      [] text = "Pay rent. by friday" -> <<4>>
      [] text = "work" -> <<5>>
      [] text = "Write report. quarterly" -> <<6>>
      [] text = "Call dentist" -> <<9>>
      [] OTHER -> <<7>>

\* a generator without the `if not text` test
GenerateEmbedding_NoTextTest(text, modelOk) ==
    IF modelOk THEN Encode(text) ELSE NULL

\* generate_embedding: None (here NULL) for an empty text or a failing model call
GenerateEmbedding(text, modelOk) ==
    IF Falsy(text) THEN NULL
    ELSE IF modelOk THEN Encode(text)
    ELSE NULL

\* f"{title}. {description}" if description else title
BatchText(title, description) ==
    IF ~Falsy(description) THEN title \o ". " \o description ELSE title

\* embedding <-> %s on one-coordinate vectors
Distance(u, v) == IF u[1] >= v[1] THEN u[1] - v[1] ELSE v[1] - u[1]

\* 1 - row[4], in tenths
Similarity(distance) == 10 - distance

Min(a, b) == IF a <= b THEN a ELSE b

----------------------------------------------------------------------------
(* Return values and history records of the pipeline *)

RetCount(n) == [kind |-> "count", val |-> <<n>>]
RetBool(b) == [kind |-> "bool", val |-> <<b>>]
RetList(rows) == [kind |-> "list", val |-> rows]
RetRaise(e) == [kind |-> "raise", val |-> <<e>>]

\* what is remembered of an operation: its name and arguments, the connection it
\* started on, whether the store or the model failed during it, whether it sent a
\* statement to the store, what it selected, generated and returned, and whether
\* it changed a committed row
NoOp ==
    [op |-> "none", args |-> <<>>, connBefore |-> "idle", storeErr |-> FALSE,
     modelErr |-> FALSE, sent |-> FALSE, sel |-> {}, genOk |-> {}, genFail |-> {},
     ret |-> RetCount(0), changed |-> FALSE, missingBefore |-> {}]

Missing(tbl) == {id \in DOMAIN tbl : tbl[id].embedding = NULL}
Stored(tbl) == {id \in DOMAIN tbl : tbl[id].embedding # NULL}

\* the outcomes of one statement sent to PostgreSQL: it succeeds, it fails with an
\* SQL error (the transaction is then aborted), or the connection is lost
StatementOutcomes == {"ok", "sql", "lost"}

\* the connection after a failed statement
AfterFailure(outcome) == IF outcome = "lost" THEN "closed" ELSE "aborted"

\* what cursor() / execute() raise before anything is sent, on the connection as it is
ConnError(c) ==
    IF c = "closed" THEN "InterfaceError"
    ELSE IF c = "aborted" THEN "InFailedSqlTransaction"
    ELSE ""

\* the outcome of a statement on connection c under the store's answer; cursor() on
\* a closed connection raises before anything is sent
Execute(c, outcome) ==
    IF ConnError(c) # "" THEN [exc |-> ConnError(c), conn |-> c, sent |-> c # "closed"]
    ELSE IF outcome = "ok" THEN [exc |-> "", conn |-> "intrans", sent |-> TRUE]
    ELSE [exc |-> IF outcome = "lost" THEN "OperationalError" ELSE "ProgrammingError",
          conn |-> AfterFailure(outcome), sent |-> TRUE]

\* self.connection.rollback(): raises on a closed connection
Rollback(c) ==
    IF c = "closed" THEN [exc |-> "InterfaceError", conn |-> "closed"]
    ELSE [exc |-> "", conn |-> "idle"]

\* the except clause of update_task_embedding / update_all_embeddings:
\* print, rollback, return the failure value; an error of rollback() propagates
ExceptRollback(c, failure) ==
    LET r == Rollback(c)
    IN  [conn |-> r.conn, ret |-> IF r.exc = "" THEN failure ELSE RetRaise(r.exc)]

\* the except clause of vector_search: print, return []
ExceptSearch(c) == [conn |-> c, ret |-> RetList(<<>>)]

\* the second instance, constructed and idle
PeerIdle ==
    [conn |-> "idle", pending |-> EmptyMap, dpc |-> "idle", cur |-> NoOp,
     last |-> NoOp, ops |-> 0]

\* an UPDATE of a row waits while another open transaction holds an uncommitted
\* write of that row
RowFree(id, otherPending) == id \notin DOMAIN otherPending

\* the cache adapter, not in use
CacheAtRest ==
    /\ storeMode = "up"
    /\ store = EmptyMap
    /\ client = [a \in Adapters |-> "unconstructed"]
    /\ cpc = [a \in Adapters |-> "idle"]
    /\ invKeys = [a \in Adapters |-> {}]
    /\ cret = [a |-> 0, op |-> "start", ret |-> NoneRet, log |-> ""]
    /\ shadowE = EmptyMap
    /\ shadowS = EmptyMap
    /\ raced = [a \in Adapters |-> {}]
    /\ nops = 0

\* the service after construction, on a connection that connect_to_db opened
InitDb ==
    /\ CacheAtRest
    /\ \E S \in {{3, 4, 5}, 1..5} :
          tasks = [id \in TaskIds |->
                     [title |-> TaskRow(id).title,
                      description |-> TaskRow(id).description,
                      status |-> TaskRow(id).status,
                      embedding |-> IF id \in S
                                    THEN Encode(BatchText(TaskRow(id).title,
                                                          TaskRow(id).description))
                                    ELSE NULL]]
    /\ conn = "idle"
    /\ pending = EmptyMap
    /\ dpc = "idle"
    /\ cur = NoOp
    /\ dret = NoOp
    /\ prev = [op |-> NoOp.op, ret |-> NoOp.ret, storeErr |-> FALSE,
               modelErr |-> FALSE, genFail |-> {}]
    /\ peer = PeerIdle
    /\ dops = 0

\* an operation starts: only when none is running, and within the bound
Begin == dpc = "idle" /\ dops < MaxDbOps /\ dops' = dops + 1

\* an operation returns: it becomes the last operation
Complete(rec) ==
    /\ dret' = rec
    /\ prev' = [op |-> dret.op, ret |-> dret.ret, storeErr |-> dret.storeErr,
                modelErr |-> dret.modelErr, genFail |-> dret.genFail]

\* the rows with the pending embeddings of the open transaction applied
Committed(tbl, pend) ==
    [id \in DOMAIN tbl |->
        IF id \in DOMAIN pend THEN [tbl[id] EXCEPT !.embedding = pend[id]] ELSE tbl[id]]

----------------------------------------------------------------------------
(* update_all_embeddings *)

RECURSIVE SeqOfSet(_)
\* fetchall(): the selected ids, in id order
SeqOfSet(S) ==
    IF S = {} THEN <<>>
    ELSE LET m == CHOOSE x \in S : \A y \in S : x <= y
         IN  <<m>> \o SeqOfSet(S \ {m})

\* a SELECT without the WHERE clause
WhereEmbeddingIsNull_EveryRow(tbl) == DOMAIN tbl

\* SELECT id, title, description FROM tasks WHERE embedding IS NULL
WhereEmbeddingIsNull(tbl) == {id \in DOMAIN tbl : tbl[id].embedding = NULL}

\* lines 75-82: cursor, SELECT ... WHERE embedding IS NULL, fetchall, updated_count = 0
ua_select(outcome) ==
    /\ Begin
    /\ LET e == Execute(conn, outcome)
           rec == [NoOp EXCEPT !.op = "update_all_embeddings", !.connBefore = conn,
                               !.storeErr = (ConnError(conn) = "" /\ outcome # "ok"),
                               !.sent = e.sent,
                               !.missingBefore = Missing(tasks)]
       IN  IF e.exc # ""
           THEN LET x == ExceptRollback(e.conn, RetCount(0))
                IN  /\ conn' = x.conn
                    /\ Complete([rec EXCEPT !.ret = x.ret])
                    /\ UNCHANGED <<dpc, cur>>
           ELSE /\ conn' = e.conn
                /\ dpc' = "loop"
                /\ cur' = [rec EXCEPT !.sel = WhereEmbeddingIsNull(tasks),
                                      !.args = SeqOfSet(WhereEmbeddingIsNull(tasks))]
                /\ UNCHANGED <<dret, prev>>
    /\ UNCHANGED <<tasks, pending, peer, cvars>>

\* a loop that updates and counts every fetched row
Embedded_Always(embedding) == TRUE

\* `if embedding:`
Embedded(embedding) == embedding # NULL

\* lines 83-93: one turn of the loop, for the next fetched row
ua_record(modelOk, outcome) ==
    /\ dpc = "loop"
    /\ cur.args # <<>>
    /\ LET id == Head(cur.args)
           text == BatchText(tasks[id].title, tasks[id].description)
           embedding == GenerateEmbedding(text, modelOk)
           gen == [cur EXCEPT !.args = Tail(cur.args),
                              !.modelErr = @ \/ (~Falsy(text) /\ ~modelOk),
                              !.genOk = IF embedding # NULL THEN @ \cup {id} ELSE @,
                              !.genFail = IF embedding = NULL THEN @ \cup {id} ELSE @]
       IN  IF ~Embedded(embedding)
           THEN /\ outcome = "ok"
                /\ cur' = gen
                /\ UNCHANGED <<conn, pending, dpc, dret, prev>>
           ELSE LET e == Execute(conn, outcome)
                IN  IF ~RowFree(id, peer.pending) THEN FALSE
                    ELSE IF e.exc # ""
                    THEN LET x == ExceptRollback(e.conn, RetCount(0))
                         IN  /\ conn' = x.conn
                             /\ pending' = EmptyMap
                             /\ dpc' = "idle"
                             /\ cur' = NoOp
                             /\ Complete([gen EXCEPT !.storeErr = TRUE, !.args = <<>>,
                                                     !.ret = x.ret])
                    ELSE /\ conn' = e.conn
                         /\ pending' = [k \in DOMAIN pending \cup {id} |->
                                          IF k = id THEN embedding ELSE pending[k]]
                         /\ cur' = [gen EXCEPT !.ret =
                                       RetCount(cur.ret.val[1] + 1)]
                         /\ UNCHANGED <<dpc, dret, prev>>
    /\ UNCHANGED <<tasks, dops, peer, cvars>>

\* lines 95-98 (and 99-102 when commit() raises): commit, close, return updated_count
ua_commit(outcome) ==
    /\ dpc = "loop"
    /\ cur.args = <<>>
    /\ IF outcome = "ok"
       THEN /\ tasks' = Committed(tasks, pending)
            /\ conn' = "idle"
            /\ Complete([cur EXCEPT !.changed = (Committed(tasks, pending) # tasks)])
       ELSE LET x == ExceptRollback(AfterFailure(outcome), RetCount(0))
            IN  /\ conn' = x.conn
                /\ Complete([cur EXCEPT !.storeErr = TRUE, !.ret = x.ret])
                /\ UNCHANGED tasks
    /\ pending' = EmptyMap
    /\ dpc' = "idle"
    /\ cur' = NoOp
    /\ UNCHANGED <<dops, peer, cvars>>

----------------------------------------------------------------------------
(* update_task_embedding *)

\* an update that does not test the generated embedding
NoEmbedding_Never(embedding) == FALSE

\* `if not embedding:`
NoEmbedding(embedding) == embedding = NULL

\* lines 50-71: the two early returns, then UPDATE and commit, or the except clause
update_task_embedding(task_id, description, modelOk, outcome) ==
    /\ Begin
    /\ LET rec == [NoOp EXCEPT !.op = "update_task_embedding", !.connBefore = conn,
                               !.args = <<task_id, description>>,
                               !.missingBefore = Missing(tasks)]
           embedding == GenerateEmbedding(description, modelOk)
       IN  IF Falsy(description)
           THEN /\ outcome = "ok" /\ modelOk
                /\ Complete([rec EXCEPT !.ret = RetBool(FALSE)])
                /\ UNCHANGED <<tasks, conn>>
           ELSE IF NoEmbedding(embedding)
           THEN /\ outcome = "ok"
                /\ Complete([rec EXCEPT !.ret = RetBool(FALSE), !.modelErr = TRUE,
                                        !.genFail = {task_id}])
                /\ UNCHANGED <<tasks, conn>>
           ELSE LET e == Execute(conn, outcome)
                    after == [id \in DOMAIN tasks |->
                                IF id = task_id
                                THEN [tasks[id] EXCEPT !.embedding = embedding]
                                ELSE tasks[id]]
                IN  IF ~RowFree(task_id, peer.pending) THEN FALSE
                    ELSE IF e.exc # ""
                    THEN LET x == ExceptRollback(e.conn, RetBool(FALSE))
                         IN  /\ conn' = x.conn
                             /\ Complete([rec EXCEPT
                                   !.storeErr = (ConnError(conn) = ""),
                                   !.sent = e.sent,
                                   !.genOk = {task_id}, !.ret = x.ret])
                             /\ UNCHANGED tasks
                    ELSE /\ tasks' = after
                         /\ conn' = "idle"
                         /\ Complete([rec EXCEPT !.genOk = {task_id},
                                                 !.sent = e.sent,
                                                 !.ret = RetBool(TRUE),
                                                 !.changed = (after # tasks)])
    /\ UNCHANGED <<pending, dpc, cur, peer, cvars>>

----------------------------------------------------------------------------
(* vector_search *)

\* the row of a result: id, title, description, status, similarity
ResultOf(tbl, id, q) ==
    [id |-> id, title |-> tbl[id].title, description |-> tbl[id].description,
     status |-> tbl[id].status,
     similarity |-> Similarity(Distance(tbl[id].embedding, q))]

RECURSIVE Nearest(_, _, _, _)
\* the sequences of the n members of S nearest to q, in ascending distance; members
\* at equal distance come in any order
Nearest(tbl, S, q, n) ==
    IF n = 0 \/ S = {} THEN {<<>>}
    ELSE LET d(id) == Distance(tbl[id].embedding, q)
             first == {x \in S : \A y \in S : d(x) <= d(y)}
         IN  UNION {{<<x>> \o t : t \in Nearest(tbl, S \ {x}, q, n - 1)} : x \in first}

\* WHERE embedding IS NOT NULL ORDER BY distance LIMIT %s
NearestRows(tbl, q, limit) ==
    Nearest(tbl, Stored(tbl), q, Min(limit, Cardinality(Stored(tbl))))

\* lines 104-138: the query's embedding, the SELECT, the rows as dicts; the
\* transaction the SELECT opened is left as it is, also by the except clause
vector_search(query, limit, modelOk, outcome) ==
    /\ Begin
    /\ LET rec == [NoOp EXCEPT !.op = "vector_search", !.connBefore = conn,
                               !.args = <<query, limit>>,
                               !.missingBefore = Missing(tasks)]
           q == GenerateEmbedding(query, modelOk)
       IN  IF q = NULL
           THEN /\ outcome = "ok"
                /\ (Falsy(query) => modelOk)
                /\ Complete([rec EXCEPT !.ret = RetList(<<>>),
                                        !.modelErr = ~Falsy(query)])
                /\ UNCHANGED conn
           ELSE LET e == Execute(conn, outcome)
                IN  IF e.exc # ""
                    THEN /\ conn' = ExceptSearch(e.conn).conn
                         /\ Complete([rec EXCEPT !.storeErr = (ConnError(conn) = ""),
                                                 !.sent = e.sent,
                                                 !.genOk = {0},
                                                 !.ret = ExceptSearch(e.conn).ret])
                    ELSE /\ conn' = e.conn
                         /\ \E ids \in NearestRows(tasks, q, limit) :
                               Complete([rec EXCEPT !.genOk = {0}, !.sent = e.sent,
                                  !.ret = RetList([i \in 1..Len(ids) |->
                                                     ResultOf(tasks, ids[i], q)])])
    /\ UNCHANGED <<tasks, pending, dpc, cur, peer, cvars>>

NextDb ==
    \/ \E o \in StatementOutcomes : ua_select(o)
    \/ \E m \in BOOLEAN, o \in StatementOutcomes : ua_record(m, o)
    \/ \E o \in StatementOutcomes : ua_commit(o)
    \/ \E id \in UpdateIds, d \in Descriptions, m \in BOOLEAN, o \in StatementOutcomes :
          update_task_embedding(id, d, m, o)
    \/ \E q \in SearchTexts, l \in Limits, m \in BOOLEAN, o \in StatementOutcomes :
          vector_search(q, l, m, o)

SpecDb == InitDb /\ [][NextDb]_vars

----------------------------------------------------------------------------
(* A second service instance running update_all_embeddings on its own connection *)

\* the second instance runs at most MaxPeerOps batches
MaxPeerOps == 1

pvars == <<conn, pending, dpc, cur, dret, prev, dops>>

\* lines 75-82, by the second instance; its SELECT sees the committed rows
peer_select(outcome) ==
    /\ peer.dpc = "idle"
    /\ peer.ops < MaxPeerOps
    /\ LET e == Execute(peer.conn, outcome)
           rec == [NoOp EXCEPT !.op = "update_all_embeddings",
                               !.connBefore = peer.conn,
                               !.storeErr = (ConnError(peer.conn) = "" /\ outcome # "ok"),
                               !.sent = e.sent,
                               !.missingBefore = Missing(tasks)]
       IN  IF e.exc # ""
           THEN LET x == ExceptRollback(e.conn, RetCount(0))
                IN  peer' = [peer EXCEPT !.conn = x.conn, !.ops = @ + 1,
                                         !.last = [rec EXCEPT !.ret = x.ret]]
           ELSE peer' = [peer EXCEPT !.conn = e.conn, !.ops = @ + 1, !.dpc = "loop",
                                     !.cur = [rec EXCEPT !.sel = WhereEmbeddingIsNull(tasks),
                                                !.args = SeqOfSet(WhereEmbeddingIsNull(tasks))]]
    /\ UNCHANGED <<tasks, pvars, cvars>>

\* lines 83-93, by the second instance
peer_record(modelOk, outcome) ==
    /\ peer.dpc = "loop"
    /\ peer.cur.args # <<>>
    /\ LET id == Head(peer.cur.args)
           text == BatchText(tasks[id].title, tasks[id].description)
           embedding == GenerateEmbedding(text, modelOk)
           gen == [peer.cur EXCEPT
                      !.args = Tail(peer.cur.args),
                      !.modelErr = @ \/ (~Falsy(text) /\ ~modelOk),
                      !.genOk = IF embedding # NULL THEN @ \cup {id} ELSE @,
                      !.genFail = IF embedding = NULL THEN @ \cup {id} ELSE @]
       IN  IF ~Embedded(embedding)
           THEN /\ outcome = "ok"
                /\ peer' = [peer EXCEPT !.cur = gen]
           ELSE LET e == Execute(peer.conn, outcome)
                IN  IF ~RowFree(id, pending) THEN FALSE
                    ELSE IF e.exc # ""
                    THEN LET x == ExceptRollback(e.conn, RetCount(0))
                         IN  peer' = [peer EXCEPT
                                        !.conn = x.conn, !.pending = EmptyMap,
                                        !.dpc = "idle", !.cur = NoOp,
                                        !.last = [gen EXCEPT !.storeErr = TRUE,
                                                    !.args = <<>>, !.ret = x.ret]]
                    ELSE peer' = [peer EXCEPT
                                    !.conn = e.conn,
                                    !.pending = [k \in DOMAIN peer.pending \cup {id} |->
                                                   IF k = id THEN embedding
                                                   ELSE peer.pending[k]],
                                    !.cur = [gen EXCEPT !.ret =
                                               RetCount(peer.cur.ret.val[1] + 1)]]
    /\ UNCHANGED <<tasks, pvars, cvars>>

\* lines 95-102, by the second instance
peer_commit(outcome) ==
    /\ peer.dpc = "loop"
    /\ peer.cur.args = <<>>
    /\ IF outcome = "ok"
       THEN /\ tasks' = Committed(tasks, peer.pending)
            /\ peer' = [peer EXCEPT
                           !.conn = "idle", !.pending = EmptyMap, !.dpc = "idle",
                           !.cur = NoOp,
                           !.last = [peer.cur EXCEPT !.changed =
                                       (Committed(tasks, peer.pending) # tasks)]]
       ELSE LET x == ExceptRollback(AfterFailure(outcome), RetCount(0))
            IN  /\ peer' = [peer EXCEPT
                               !.conn = x.conn, !.pending = EmptyMap, !.dpc = "idle",
                               !.cur = NoOp,
                               !.last = [peer.cur EXCEPT !.storeErr = TRUE,
                                                         !.ret = x.ret]]
                /\ UNCHANGED tasks
    /\ UNCHANGED <<pvars, cvars>>

NextPair ==
    \/ \E o \in StatementOutcomes : ua_select(o)
    \/ \E m \in BOOLEAN, o \in StatementOutcomes : ua_record(m, o)
    \/ \E o \in StatementOutcomes : ua_commit(o)
    \/ \E o \in StatementOutcomes : peer_select(o)
    \/ \E m \in BOOLEAN, o \in StatementOutcomes : peer_record(m, o)
    \/ \E o \in StatementOutcomes : peer_commit(o)

SpecPair == InitDb /\ [][NextPair]_vars

----------------------------------------------------------------------------
(* Properties of the cache adapter *)

ByAdapter(a) == cret'.a = a /\ nops' # nops

\* C1: an adapter constructed while the store refuses connections is degraded for
\* good: construction does not raise and leaves no client; from then on the client
\* stays None whatever the store does, every get returns None, get_cache_stats
\* reports "disconnected", no operation changes the store, none issues a command
\* (nothing is logged as absorbed) and none raises.
C1_DegradedForLife ==
    [][\A a \in Adapters :
          /\ (client[a] = "unconstructed" /\ storeMode = "down" /\ ByAdapter(a))
                => (client'[a] = "None" /\ cret'.ret = NoneRet)
          /\ client[a] = "None"
                => /\ client'[a] = "None"
                   /\ ByAdapter(a)
                        => /\ store' = store
                           /\ cret'.log = ""
                           /\ cret'.ret = IF cret'.op = "get_cache_stats"
                                          THEN StatsRet("disconnected", <<>>)
                                          ELSE NoneRet]_vars

\* a degraded adapter has just been asked for an entry that another adapter cached,
\* with the store reachable again
C1_Witness ==
    /\ cret.a \in Adapters
    /\ client[cret.a] = "None"
    /\ cret.op = "get_embedding"
    /\ storeMode = "up"
    /\ RedisKeys(store, "embedding") # {}

\* C2: on a connected adapter no operation raises and the adapter stays connected;
\* an operation that meets a store error leaves the store as it was and returns
\* None (get_cache_stats: a record with status "error"), and once the store is up
\* again get_cache_stats reports "connected".
C2_ErrorsAbsorbed ==
    [][\A a \in Adapters :
          (client[a] = "connected" /\ ByAdapter(a))
             => /\ cret'.ret.kind # "raise"
                /\ client'[a] = "connected"
                /\ storeMode # "up"
                     => /\ store' = store
                        /\ cret'.ret = IF cret'.op = "get_cache_stats"
                                       THEN StatsRet("error", <<CommandError(storeMode)>>)
                                       ELSE NoneRet
                /\ (storeMode = "up" /\ cret'.op = "get_cache_stats")
                     => cret'.ret.val[1] = "connected"]_vars

\* a connected adapter has absorbed a store error of a get on a cached entry
C2_Witness ==
    /\ cret.a \in Adapters
    /\ client[cret.a] = "connected"
    /\ cret.op = "get_embedding"
    /\ cret.log = "ResponseError"
    /\ cret.ret = NoneRet
    /\ RedisKeys(store, "embedding") # {}

ConnectedUp(a) == client[a] = "connected" /\ storeMode = "up"

\* C3: when invalidate_search_cache returns, having met no store error and with no
\* other writer between its scan and its delete, get_search_results returns None
\* for every request, and every embedding entry is as it was: same payload, same
\* expiry, same answer from get_embedding.
C3_InvalidateFrame ==
    [][\A a \in Adapters :
          ( /\ client[a] = "connected"
            /\ ByAdapter(a)
            /\ cret'.op = "invalidate_search_cache"
            /\ cret'.log \in {"", "Cleared"}
            /\ cpc[a] = "delete" => raced[a] = {} )
          => /\ \A q \in Queries, f \in FilterArgs :
                   GetSearchResult(client'[a], "up", store', q, f).ret = NoneRet
             /\ \A k \in RedisKeys(store, "embedding") :
                   k \in DOMAIN store' /\ store'[k] = store[k]
             /\ \A t \in Texts :
                   GetEmbeddingResult(client'[a], "up", store', t)
                     = GetEmbeddingResult(client[a], "up", store, t)]_vars

\* an invalidation has just cleared search entries while an embedding is cached
C3_Witness ==
    /\ cret.op = "invalidate_search_cache"
    /\ cret.log = "Cleared"
    /\ RedisKeys(store, "embedding") # {}
    /\ RedisKeys(store, "search") = {}

\* C4: while the store is reachable, every connected adapter's get_embedding(t)
\* returns the vector of the last set_embedding(t, v, ttl) that reached the store,
\* as long as its ttl has not elapsed.
C4_EmbeddingRoundTrip ==
    \A a \in Adapters, t \in DOMAIN shadowE :
        ConnectedUp(a)
           => GetEmbeddingResult(client[a], storeMode, store, t).ret
                = HitRet(shadowE[t].val)

\* get_embedding has just returned the cached vector, part of its TTL having passed
C4_Witness ==
    /\ cret.op = "get_embedding"
    /\ cret.ret.kind = "value"
    /\ \E t \in DOMAIN shadowE :
          /\ cret.ret = HitRet(shadowE[t].val)
          /\ shadowE[t].ttl < DefaultEmbeddingTTL
          /\ shadowE[t].ttl > 2

\* C5: while the store is reachable, get_search_results(q, f) of a connected adapter
\* returns exactly the list, in its stored order, of the last set_search_results for
\* that request that reached the store, until expiry or invalidation; an empty list
\* comes back as an empty list, not as None.
C5_SearchRoundTrip ==
    \A a \in Adapters, q \in Queries, f \in FilterArgs :
        (ConnectedUp(a) /\ Request(q, f) \in DOMAIN shadowS)
           => GetSearchResult(client[a], storeMode, store, q, f).ret
                = HitRet(shadowS[Request(q, f)].val)

\* get_search_results has just returned a cached empty list as a hit
C5_Witness ==
    /\ cret.op = "get_search_results"
    /\ cret.ret = HitRet(<<>>)
    /\ \E rq \in DOMAIN shadowS : shadowS[rq].val = <<>>

\* the store holding only the entry k
Only(k) == [x \in {k} |-> store[x]]

\* C6: get_search_results(q2, f2) hits the entry that set_search_results(q1, r, f1)
\* wrote if and only if q1 = q2 and f1, f2 are the same mapping, whatever the
\* insertion order of their keys and with None the same as {}.
C6_SearchAddressing ==
    \A k \in RedisKeys(store, "search"), q2 \in Queries, f2 \in FilterArgs :
        (GetSearchResult("connected", "up", Only(k), q2, f2).ret.kind = "value")
           <=> (Request(q2, f2) = Request(store[k].req.q, store[k].req.f))

\* a get has just hit; the one entry there is was written with two filters, and a
\* request giving them in the other insertion order hits it
C6_Witness ==
    /\ cret.op = "get_search_results"
    /\ cret.ret.kind = "value"
    /\ \E k \in DOMAIN store, f2 \in FilterArgs :
          /\ DOMAIN store = {k}
          /\ Len(store[k].req.f.items) = 2
          /\ FilterMapping(f2) = FilterMapping(store[k].req.f)
          /\ f2 # store[k].req.f
          /\ GetSearchResult("connected", "up", store, store[k].req.q, f2).ret = cret.ret

----------------------------------------------------------------------------
(* Properties of the embedding pipeline *)

BatchDone == dpc = "idle" /\ dret.op = "update_all_embeddings"

\* C7: update_all_embeddings is idempotent: of two runs in a row on an unchanged
\* table, with the store and the model answering both, the second reports zero
\* updated records and leaves every embedding as it was.
C7_SecondRunReportsZero ==
    ( /\ BatchDone
      /\ prev.op = "update_all_embeddings"
      /\ prev.ret.kind = "count" /\ dret.ret.kind = "count"
      /\ ~prev.storeErr /\ ~prev.modelErr
      /\ ~dret.storeErr /\ ~dret.modelErr )
    => (dret.ret = RetCount(0) /\ ~dret.changed)

\* two runs in a row, store and model answering both: the first, started on the
\* transaction a failed vector_search left aborted, returned 0; the second stored
\* embeddings and reported them
C7_Divergence ==
    /\ BatchDone
    /\ prev.op = "update_all_embeddings"
    /\ ~prev.storeErr /\ ~prev.modelErr /\ prev.ret = RetCount(0)
    /\ ~dret.storeErr /\ ~dret.modelErr
    /\ dret.ret.kind = "count" /\ dret.ret.val[1] > 0
    /\ dret.changed

\* C8: update_all_embeddings is all-or-nothing: when the store fails at the select,
\* at an update or at the commit, every record MISSING at the start is still MISSING
\* and the invocation returns 0; until the commit no update is visible.
C8_AllOrNothing ==
    /\ (BatchDone /\ dret.storeErr)
          => (dret.ret = RetCount(0) /\ dret.missingBefore \subseteq Missing(tasks))
    /\ dpc = "loop" => Missing(tasks) = cur.missingBefore

\* the connection was lost during the batch: rollback() raised in the except clause
\* and the invocation raised instead of returning 0
C8_Divergence ==
    /\ BatchDone
    /\ dret.storeErr
    /\ dret.ret = RetRaise("InterfaceError")
    /\ conn = "closed"

\* C9: a record whose generation fails is skipped and stays MISSING, and is selected
\* again by the next invocation; in an invocation the store does not fail, every
\* selected record whose generation succeeds becomes STORED; the count returned is
\* the number of records that went from MISSING to STORED.
C9_FailedGenerationSkipsRecord ==
    /\ BatchDone =>
          /\ \A id \in dret.genFail : id \in Missing(tasks)
          /\ ~dret.storeErr => \A id \in dret.genOk : id \in Stored(tasks)
          /\ dret.ret.kind = "count" =>
                dret.ret.val[1] = Cardinality(dret.missingBefore \cap Stored(tasks))
    /\ dpc = "loop" =>
          /\ cur.sel = Missing(tasks)
          /\ dret.op = "update_all_embeddings" => dret.genFail \subseteq cur.sel

\* a batch in which the model failed on a record that has a text, skipped a record
\* without text, and stored and counted another record
C9_Witness ==
    /\ BatchDone
    /\ dret.modelErr /\ ~dret.storeErr
    /\ Cardinality(dret.genFail) = 2
    /\ dret.genOk # {}
    /\ dret.ret = RetCount(Cardinality(dret.genOk))
    /\ dret.changed

\* the answer the SELECT of vector_search defines for rows, a query and a limit
IsAnswer(rows, tbl, q, limit) ==
    LET d(i) == Distance(tbl[rows[i].id].embedding, q)
    IN  /\ Len(rows) = Min(limit, Cardinality(Stored(tbl)))
        /\ \A i \in 1..Len(rows) :
              /\ rows[i].id \in Stored(tbl)
              /\ rows[i].similarity = Similarity(d(i))
        /\ \A i, j \in 1..Len(rows) : i < j => (rows[i].id # rows[j].id /\ d(i) <= d(j))

\* C10: vector_search with a query whose embedding is generated, on a connection
\* that is open and a store that answers, returns exactly min(limit, number of
\* STORED records) records, all STORED, in ascending distance, each with similarity
\* 1 - distance; at distances 0.1, 0.2, 0.4, 0.6, 0.9 and limit 3 the similarities
\* are 0.9, 0.8, 0.6.
C10_SearchAnswer ==
    ( /\ dpc = "idle"
      /\ dret.op = "vector_search"
      /\ dret.genOk # {}
      /\ ~dret.storeErr
      /\ dret.connBefore # "closed" )
    => /\ IsAnswer(dret.ret.val, tasks, Encode(dret.args[1]), dret.args[2])
       /\ (dret.args = <<"shopping", 3>> /\ Missing(tasks) = {6}
           /\ \A id \in 1..5 : tasks[id].embedding =
                 Encode(BatchText(tasks[id].title, tasks[id].description)))
          => [i \in 1..3 |-> dret.ret.val[i].similarity] = <<9, 8, 6>>

\* a search for a query with an embedding, on an open connection and an answering
\* store with STORED records, that returned nothing: the connection was in the
\* transaction an earlier failed vector_search left aborted
C10_Divergence ==
    /\ dpc = "idle"
    /\ dret.op = "vector_search"
    /\ dret.genOk # {}
    /\ ~dret.storeErr
    /\ dret.connBefore = "aborted"
    /\ prev.op = "vector_search" /\ prev.storeErr
    /\ Stored(tasks) # {}
    /\ dret.ret = RetList(<<>>)

\* the texts the model passes to generate_embedding
GeneratorTexts ==
    SearchTexts \cup Descriptions
        \cup {BatchText(TaskRow(id).title, TaskRow(id).description) : id \in TaskIds}

\* C11: generate_embedding returns no vector when the text is empty or the model
\* call errors, and a vector otherwise; a vector_search whose query has no embedding
\* returns the empty list, sends no statement to the store, leaves the connection
\* and the table as they are, and does not raise.
C11_NoEmbeddingNoQuery ==
    /\ \A t \in GeneratorTexts, m \in BOOLEAN :
          (GenerateEmbedding(t, m) = NULL) <=> (Falsy(t) \/ ~m)
    /\ [][ ( /\ dops' # dops /\ dpc' = "idle"
             /\ dret'.op = "vector_search"
             /\ (Falsy(dret'.args[1]) \/ dret'.modelErr) )
           => ( /\ dret'.ret = RetList(<<>>)
                /\ ~dret'.sent
                /\ conn' = conn
                /\ tasks' = tasks ) ]_vars

\* a search whose model call failed, on an idle connection with STORED records:
\* it returned [] and the connection is still idle
C11_Witness ==
    /\ dret.op = "vector_search"
    /\ dret.modelErr /\ ~Falsy(dret.args[1])
    /\ dret.ret = RetList(<<>>)
    /\ conn = "idle"
    /\ Stored(tasks) # {}

\* the bytes under the key are non-empty and pickle.loads / json.loads fails on them
CorruptEmbedding(a, t) ==
    /\ client[a] = "connected" /\ storeMode = "up"
    /\ Truthy(RedisGet(store, EmbeddingKey(t)))
    /\ ~PickleLoads(RedisGet(store, EmbeddingKey(t))).ok

CorruptSearch(a, q, f) ==
    /\ client[a] = "connected" /\ storeMode = "up"
    /\ Truthy(RedisGet(store, SearchKey(q, f)))
    /\ ~JsonLoadsResults(RedisGet(store, SearchKey(q, f))).ok

\* C12: a get_embedding / get_search_results that reads a payload whose
\* deserialization fails returns None, does not raise, and leaves the store as it was.
C12_CorruptIsMiss ==
    [][ /\ \A a \in Adapters, t \in Texts :
              (CorruptEmbedding(a, t) /\ get_embedding(a, t))
                 => (cret'.ret = NoneRet /\ store' = store)
        /\ \A a \in Adapters, q \in Queries, f \in FilterArgs :
              (CorruptSearch(a, q, f) /\ get_search_results(a, q, f))
                 => (cret'.ret = NoneRet /\ store' = store) ]_vars

\* a get_embedding has just failed to unpickle the bytes that are still under the
\* key, and returned None
C12_Witness ==
    /\ cret.op = "get_embedding"
    /\ cret.log = "UnpicklingError"
    /\ cret.ret = NoneRet
    /\ \E t \in Texts : CorruptEmbedding(cret.a, t)

\* C13: after a successful construction no call of update_task_embedding,
\* update_all_embeddings or vector_search raises to its caller, whatever store or
\* model error occurs during it, an error raised while rolling back included.
C13_NothingEscapes ==
    dret.ret.kind # "raise"

\* update_task_embedding lost the connection at its UPDATE: rollback() raised in the
\* except clause and the call raised instead of returning False
C13_Divergence ==
    /\ dpc = "idle"
    /\ dret.op = "update_task_embedding"
    /\ dret.connBefore = "idle"
    /\ dret.storeErr
    /\ dret.ret = RetRaise("InterfaceError")

\* the records an update_all_embeddings can store: those with a text
Generatable(tbl) ==
    {id \in Missing(tbl) : ~Falsy(BatchText(tbl[id].title, tbl[id].description))}

\* C14: an operation in which a store query failed rolls back before it returns, so
\* the connection is left neither in an open nor in an aborted transaction, and the
\* next operation is unaffected: an update_all_embeddings that follows a failed
\* vector_search, store and model answering, stores every MISSING record that has a
\* text.
C14_FailureRollsBack ==
    /\ (dpc = "idle" /\ dret.storeErr /\ dret.ret.kind # "raise")
          => conn \notin {"intrans", "aborted"}
    /\ ( /\ BatchDone
         /\ prev.op = "vector_search" /\ prev.storeErr
         /\ dret.connBefore # "closed"
         /\ ~dret.storeErr /\ ~dret.modelErr )
       => Generatable(tasks) = {}

\* a vector_search whose SELECT failed returned [] and left the transaction aborted;
\* the update_all_embeddings after it, store and model answering, returned 0 and
\* the records with a text are still MISSING
C14_Divergence ==
    /\ BatchDone
    /\ prev.op = "vector_search" /\ prev.storeErr /\ prev.ret = RetList(<<>>)
    /\ dret.connBefore = "aborted"
    /\ ~dret.storeErr /\ ~dret.modelErr
    /\ dret.ret = RetCount(0)
    /\ Generatable(tasks) # {}

\* every search entry has an expiry of at most the default TTL, and is gone after it
SearchEntriesExpire ==
    \A k \in RedisKeys(store, "search") :
       /\ store[k].ttl \in 1..DefaultSearchTTL
       /\ k \notin DOMAIN Expire(store, store[k].ttl)

\* C15: invalidate_search_cache deletes exactly the keys its scan saw: a search
\* entry another adapter wrote between the scan and the delete is deleted when its
\* key had been seen and survives unchanged when it had not; and every search entry
\* in the store carries an expiry, after which it is absent.
C15_ScanThenDelete ==
    [][ /\ SearchEntriesExpire'
        /\ \A a \in Adapters :
             (cpc[a] = "delete" /\ ByAdapter(a) /\ cret'.log = "Cleared")
                => \A w \in raced[a] :
                      (w.wrote /\ w.key \in DOMAIN store)
                         => IF w.seen THEN w.key \notin DOMAIN store'
                            ELSE w.key \in DOMAIN store'
                                 /\ store'[w.key] = store[w.key] ]_vars

\* an invalidation has just returned; between its scan and its delete another
\* adapter wrote an entry under a key the scan had seen, which is gone, and an
\* entry under a key the scan had not seen, which is still there
C15_Witness ==
    /\ cret.op = "invalidate_search_cache"
    /\ cret.log = "Cleared"
    /\ \E w1, w2 \in raced[cret.a] :
          /\ w1.wrote /\ w1.seen /\ w1.key \notin DOMAIN store
          /\ w2.wrote /\ ~w2.seen /\ w2.key \in DOMAIN store

\* a batch that ran to its commit
RanToCommit(rec) ==
    /\ rec.op = "update_all_embeddings"
    /\ rec.ret.kind = "count"
    /\ rec.connBefore = "idle"
    /\ ~rec.storeErr

BothCommitted ==
    /\ dpc = "idle" /\ peer.dpc = "idle"
    /\ RanToCommit(dret) /\ RanToCommit(peer.last)

\* C16: two instances running update_all_embeddings on separate connections are not
\* kept apart: when both have committed, each has written and counted every record
\* it selected and generated, a record both selected included, and each such record
\* is STORED with the embedding its writers computed.
C16_ConcurrentBackfill ==
    BothCommitted =>
       /\ dret.ret = RetCount(Cardinality(dret.genOk))
       /\ peer.last.ret = RetCount(Cardinality(peer.last.genOk))
       /\ \A id \in dret.genOk \cap peer.last.genOk :
             /\ id \in dret.sel \cap peer.last.sel
             /\ tasks[id].embedding =
                   Encode(BatchText(tasks[id].title, tasks[id].description))

\* both instances selected the same MISSING records, both wrote and counted them and
\* committed: the counts add up to more than the records that were MISSING
C16_Witness ==
    /\ BothCommitted
    /\ dret.missingBefore = peer.last.missingBefore
    /\ dret.genOk \cap peer.last.genOk # {}
    /\ dret.ret.val[1] + peer.last.ret.val[1] > Cardinality(dret.missingBefore)
    /\ dret.genOk \subseteq Stored(tasks)

\* the store once the expiry of the entry under k has passed
AfterExpiryOf(k) == Expire(store, store[k].ttl)

\* every entry carries an expiry, and once it has elapsed GET finds nothing under
\* the key
EntriesExpire ==
    \A k \in DOMAIN store :
       /\ store[k].ttl >= 1
       /\ ~Truthy(RedisGet(AfterExpiryOf(k), k))

\* C17: every entry in the store carries an expiry, once it has elapsed the entry is
\* gone, and a get that finds no entry returns None; a set that reaches the store leaves under its key the
\* payload and the TTL of this call, whatever was there before: the caller's TTL,
\* or 3600 seconds for set_embedding and 600 seconds for set_search_results when
\* the caller gives none.
C17_EveryEntryExpires ==
    /\ [][EntriesExpire']_vars
    /\ [][\A a \in Adapters :
             (ConnectedUp(a) /\ ByAdapter(a)) =>
               /\ (cret'.op = "get_embedding" /\ RedisKeys(store, "embedding") = {})
                     => cret'.ret = NoneRet
               /\ (cret'.op = "get_search_results" /\ RedisKeys(store, "search") = {})
                     => cret'.ret = NoneRet]_vars
    /\ [][\A a \in Adapters :
             (ConnectedUp(a) /\ ByAdapter(a) /\ cret'.op = "set_embedding") =>
                \A t \in Texts, v \in Vectors :
                   /\ \A ttl \in TTLArgs :
                         set_embedding(a, t, v, ttl)
                            => /\ store'[EmbeddingKey(t)].ttl = ttl
                               /\ store'[EmbeddingKey(t)].val = PickleDumps(v)
                   /\ set_embedding(a, t, v, DefaultEmbeddingTTL)
                         => /\ store'[EmbeddingKey(t)].ttl = 3600
                            /\ store'[EmbeddingKey(t)].val = PickleDumps(v)]_vars
    /\ [][\A a \in Adapters :
             (ConnectedUp(a) /\ ByAdapter(a) /\ cret'.op = "set_search_results") =>
                \A q \in Queries, r \in ResultLists, f \in FilterArgs :
                   /\ \A ttl \in TTLArgs :
                         set_search_results(a, q, r, f, ttl)
                            => /\ store'[SearchKey(q, f)].ttl = ttl
                               /\ store'[SearchKey(q, f)].val = JsonDumpsResults(r)
                   /\ set_search_results(a, q, r, f, DefaultSearchTTL)
                         => /\ store'[SearchKey(q, f)].ttl = 600
                            /\ store'[SearchKey(q, f)].val = JsonDumpsResults(r)]_vars

\* set_search_results without a TTL has just written an entry that expires in 600
\* seconds, beside an embedding entry written without a TTL whose expiry, part of
\* the 3600 seconds having passed, is still ahead
C17_Witness ==
    /\ cret.op = "set_search_results"
    /\ \E k \in RedisKeys(store, "search") : store[k].ttl = 600
    /\ \E k \in RedisKeys(store, "embedding") :
          store[k].ttl < 3600 /\ store[k].ttl > 3600 - 600

----------------------------------------------------------------------------
(* C18: the embedding column of a record only moves forward. Over every step of
   update_task_embedding, update_all_embeddings and vector_search, failed and
   rolled-back ones included, a record whose committed embedding is STORED has a
   STORED committed embedding afterwards: it is never MISSING again. *)
C18_StoredStaysStored ==
    [][Stored(tasks) \subseteq Stored(tasks')]_vars

\* record 1 was committed STORED by update_task_embedding (record 2 is still
\* MISSING, so the table began with 1 and 2 MISSING), then update_all_embeddings
\* failed at the store and rolled back: record 1 is still STORED
C18_Witness ==
    /\ dpc = "idle"
    /\ prev.op = "update_task_embedding"
    /\ prev.ret = RetBool(TRUE)
    /\ dret.op = "update_all_embeddings"
    /\ dret.storeErr
    /\ dret.ret = RetCount(0)
    /\ 2 \in Missing(tasks)
    /\ 1 \in Stored(tasks)

----------------------------------------------------------------------------
(* C19: the pipeline writes nothing but the embedding column. Over every step:
   id, title, description and status of every record are unchanged;
   update_all_embeddings writes (in its transaction) and changes (at its commit)
   only records that were MISSING when it selected them, so a record already
   STORED is not rewritten by it; update_task_embedding changes only the record
   with the given id; vector_search writes and changes nothing. *)
OtherColumns(tbl) ==
    [id \in DOMAIN tbl |->
       [title |-> tbl[id].title, description |-> tbl[id].description,
        status |-> tbl[id].status]]

Changed(id) == tasks'[id] # tasks[id]

C19_OnlyEmbeddingWritten ==
    [][ /\ OtherColumns(tasks') = OtherColumns(tasks)
        /\ dpc = "loop" =>
              /\ cur.op = "update_all_embeddings"
              /\ DOMAIN pending' \subseteq cur.missingBefore
              /\ DOMAIN pending' \cap Stored(tasks) = {}
              /\ \A id \in TaskIds : Changed(id) => id \in cur.missingBefore
              /\ \A id \in Stored(tasks) : ~Changed(id)
        /\ (dpc = "idle" /\ dret'.op = "update_all_embeddings" /\ dops' # dops) =>
              /\ tasks' = tasks
              /\ pending' = pending
        /\ (dpc = "idle" /\ dret'.op = "update_task_embedding" /\ dops' # dops) =>
              /\ \A id \in TaskIds : Changed(id) => id = dret'.args[1]
              /\ pending' = pending
        /\ (dpc = "idle" /\ dret'.op = "vector_search" /\ dops' # dops) =>
              /\ tasks' = tasks
              /\ pending' = pending ]_vars

\* update_task_embedding stored the vector of "milk and bread" for record 1; a later
\* update_all_embeddings selected the records still MISSING (2 and 6), stored
\* record 2, and left record 1 with the vector it had
C19_Witness ==
    /\ dpc = "idle"
    /\ dret.op = "update_all_embeddings"
    /\ dret.sel = {2, 6}
    /\ dret.ret = RetCount(1)
    /\ dret.changed
    /\ 2 \in Stored(tasks)
    /\ tasks[1].embedding = Encode("milk and bread")
    /\ OtherColumns(tasks) = [id \in TaskIds |-> TaskRow(id)]

----------------------------------------------------------------------------
(* C20: committed embeddings are durable across later failures on the same
   connection. Whenever the service is between operations no write is pending;
   an update_task_embedding or update_all_embeddings that fails leaves every
   committed row as it was (the embeddings committed by earlier operations
   included) and none of its own writes pending; update_task_embedding with an
   empty description or a failing generator returns False, sends nothing and
   leaves every record unchanged. *)
Returns == dpc' = "idle" /\ (dops' # dops \/ dpc = "loop")

FailedUpdate(rec) ==
    \/ rec.op = "update_task_embedding" /\ rec.ret # RetBool(TRUE)
    \/ /\ rec.op = "update_all_embeddings"
       /\ \/ rec.ret.kind = "raise"
          \/ rec.storeErr
          \/ ConnError(rec.connBefore) # ""

C20_CommittedIsDurable ==
    [][ /\ dpc' = "idle" => pending' = EmptyMap
        /\ (Returns /\ FailedUpdate(dret')) =>
              /\ tasks' = tasks
              /\ pending' = EmptyMap
        /\ (dpc = "idle" /\ dops' # dops) =>
              \A id \in UpdateIds, d \in Descriptions, m \in BOOLEAN,
                 o \in StatementOutcomes :
                 (update_task_embedding(id, d, m, o) /\ (Falsy(d) \/ ~m)) =>
                     /\ dret'.ret = RetBool(FALSE)
                     /\ ~dret'.sent
                     /\ tasks' = tasks
                     /\ conn' = conn ]_vars

\* update_all_embeddings committed the embeddings of records 1 and 2; then
\* update_task_embedding(1, "milk and bread") failed at the store and its except
\* clause ran: record 1 still has the embedding the batch committed
C20_Witness ==
    /\ dpc = "idle"
    /\ prev.op = "update_all_embeddings"
    /\ prev.ret = RetCount(2)
    /\ dret.op = "update_task_embedding"
    /\ dret.args = <<1, "milk and bread">>
    /\ dret.storeErr
    /\ dret.ret # RetBool(TRUE)
    /\ tasks[1].embedding = Encode("Buy groceries. milk and bread")
    /\ 2 \in Stored(tasks)

====
